---------------------------- MODULE Spec2Model ----------------------------
(***************************************************************************)
(* Model of src/server.js: the express handlers for /api/register,         *)
(* /api/login, /api/verify-token, /api/check-username and /api/users over  *)
(* the PostgreSQL table `users`, with bcryptjs hashing and jsonwebtoken    *)
(* signing.  Every `await` of a handler is a point where other requests    *)
(* may run, so each handler is cut into one action per awaited step.       *)
(*                                                                         *)
(* Strings that the code only compares are kept as strings.  A password    *)
(* is a JSON value: the code looks at its truthiness, its `.length` and    *)
(* (inside bcryptjs) its type, so it is a record of those three things.    *)
(* bcrypt and HMAC are modelled symbolically: a hash is the pair (salt,    *)
(* plaintext), a signature is the pair (key, signed payload).              *)
(***************************************************************************)
EXTENDS Integers, Sequences, FiniteSets, TLC

(***************************************************************************)
(* Bounds of the model.                                                    *)
(***************************************************************************)
NumRegister == 2        \* register requests issued in one behaviour
NumLogin    == 2        \* login requests issued in one behaviour
MaxNow      == 45       \* the clock stops advancing past this day

RegIds   == 1..NumRegister
LoginIds == 1..NumLogin

(***************************************************************************)
(* Program constants.                                                      *)
(***************************************************************************)
DefaultSecret   == "stark-secret-key-2024"     \* server.js:11
ThirtyDays      == 30                          \* expiresIn: '30d'
MinPasswordLen  == 6                           \* password.length < 6

\* Response bodies' `error` strings (the source's messages, in English).
ErrAllFields    == "all fields are required"                 \* server.js:90
ErrShortPwd     == "password must be at least 6 characters"  \* server.js:94
ErrUserExists   == "user with this name or email exists"     \* server.js:105
ErrRegister     == "server error during registration"        \* server.js:145
ErrBadLogin     == "wrong username or password"              \* server.js:163,169
ErrLogin        == "server error"                            \* server.js:191
ErrNoToken      == "token not provided"                      \* server.js:201
ErrBadToken     == "invalid token"                           \* server.js:208

(***************************************************************************)
(* Request inputs.                                                         *)
(***************************************************************************)
\* "" stands for a field that is absent or empty: both are falsy in JS.
Usernames == {"", "tony", "t@stark.io"}
Emails    == {"", "t@stark.io", "p@stark.io"}

PwMissing == [type |-> "undefined", len |-> 0, text |-> ""]
PwShort   == [type |-> "string",    len |-> 5, text |-> "iron1"]
PwGood    == [type |-> "string",    len |-> 8, text |-> "ironman1"]
PwWrong   == [type |-> "string",    len |-> 8, text |-> "ironman2"]
PwNumber  == [type |-> "number",    len |-> 0, text |-> "12345678"]

RegPasswords   == {PwMissing, PwShort, PwGood, PwNumber}
LoginPasswords == {PwGood, PwWrong, PwNumber}
Identifiers    == {"tony", "t@stark.io"}
Salts          == {"salt1", "salt2"}


(***************************************************************************)
(* JavaScript value tests used by the validation (lines 89, 93).           *)
(***************************************************************************)
\* !x for a string field
FalsyString(x) == x = ""

\* !password : undefined and "" are falsy, a non-zero number is truthy
FalsyPassword(p) == p.type = "undefined" \/ (p.type = "string" /\ p.len = 0)

PasswordTooShort_Off(p) == p.type = "string" /\ p.len < MinPasswordLen - 1

\* password.length < 6 : `.length` of a number is undefined, and
\* undefined < 6 is false
PasswordTooShort(p) == p.type = "string" /\ p.len < MinPasswordLen

(***************************************************************************)
(* bcryptjs.  hash(s, salt) embeds the salt in its output; both hash and   *)
(* compare reject a non-string argument with "Illegal arguments".          *)
(***************************************************************************)
NoHash == [salt |-> "", digest |-> ""]

BcryptThrows(p) == p.type # "string"

BcryptHash(p, salt) == [salt |-> salt, digest |-> p.text]

\* the promise of compare used without await: always truthy
BcryptCompare_Always(p, hash) == TRUE

BcryptCompare(p, hash) == BcryptHash(p, hash.salt) = hash

(***************************************************************************)
(* jsonwebtoken.  sign(payload, secret, {expiresIn:'30d'}) adds iat and    *)
(* exp = iat + 30 days and signs all four claims; verify recomputes the    *)
(* signature with the given secret and rejects a token whose exp is not    *)
(* in the future.                                                          *)
(***************************************************************************)
NoSig   == [key |-> "", userId |-> 0, username |-> "", iat |-> 0, exp |-> 0]
NoToken == [form |-> "none", userId |-> 0, username |-> "", iat |-> 0, exp |-> 0,
            sig |-> NoSig]
Garbage == [NoToken EXCEPT !.form = "garbage"]

Hmac(key, t) ==
    [key |-> key, userId |-> t.userId, username |-> t.username,
     iat |-> t.iat, exp |-> t.exp]

JwtSign_ExpiresInSeconds(userId, username, secret, time) ==
    LET t == [form |-> "jwt", userId |-> userId, username |-> username,
              iat |-> time, exp |-> time, sig |-> NoSig]
    IN  [t EXCEPT !.sig = Hmac(secret, t)]

JwtSign(userId, username, secret, time) ==
    LET t == [form |-> "jwt", userId |-> userId, username |-> username,
              iat |-> time, exp |-> time + ThirtyDays, sig |-> NoSig]
    IN  [t EXCEPT !.sig = Hmac(secret, t)]

JwtVerify_NoExpiry(t, secret, time) ==
    /\ t.form = "jwt"
    /\ t.sig = Hmac(secret, t)

\* TRUE when jwt.verify returns the decoded payload, FALSE when it throws
JwtVerify(t, secret, time) ==
    /\ t.form = "jwt"
    /\ t.sig = Hmac(secret, t)
    /\ time < t.exp

\* the decoded payload handed back by jwt.verify
Decoded(t) == [userId |-> t.userId, username |-> t.username,
               iat |-> t.iat, exp |-> t.exp]
NoPayload  == [userId |-> 0, username |-> "", iat |-> 0, exp |-> 0]

(***************************************************************************)
(* Process configuration, read once at start (lines 2, 11, 146).           *)
(***************************************************************************)
EnvSecrets == {"", "configured-secret"}    \* "" : JWT_SECRET is not set
NodeEnvs   == {"development", "production"}

\* const JWT_SECRET = process.env.JWT_SECRET || 'stark-secret-key-2024'
JwtSecretOf(e) == IF e.JWT_SECRET = "" THEN DefaultSecret ELSE e.JWT_SECRET


(***************************************************************************)
(* State.                                                                  *)
(***************************************************************************)
VARIABLES
    env,        \* process.env as read at start: JWT_SECRET, NODE_ENV
    db,         \* initDatabase(): "pending", "created" or "failed"
    users,      \* the rows of table users
    seq,        \* next value of the SERIAL sequence users_id_seq
    now,        \* the clock, in days
    reg,        \* the /api/register requests, by id
    login,      \* the /api/login requests, by id
    ver,        \* the last /api/verify-token request, its response, and
                \* (history) the clock when it was served
    lastReg,    \* history: <<r, l>>, register r was the last operation to
                \* run before login l (0: not received yet) and nothing
                \* but l has run since; <<0, 0>> otherwise
    get         \* the last /api/check-username or /api/users request, its
                \* response, and (history) the sequence value when it was
                \* served

vars == <<env, db, users, seq, now, reg, login, ver, lastReg, get>>

NoUser == [id |-> 0, username |-> "", email |-> ""]
NoRow  == [id |-> 0, username |-> "", email |-> "", password_hash |-> NoHash,
           created_at |-> 0]

\* a response: res.status(..).json({error, details, token, user})
Response(status, error, details, token, user) ==
    [status |-> status, error |-> error, details |-> details,
     token |-> token, user |-> user]
NoResponse == Response(0, "", "", NoToken, NoUser)

\* error.message of the exceptions the handlers catch
MsgStore     == "connection terminated"
MsgDuplicate == "duplicate key value violates unique constraint"
MsgBcrypt    == "Illegal arguments"

IdleRegister ==
    [pc |-> "idle", username |-> "", email |-> "", password |-> PwMissing,
     passwordHash |-> NoHash, cause |-> "", res |-> NoResponse]

IdleLogin ==
    [pc |-> "idle", username |-> "", password |-> PwMissing, row |-> NoRow,
     cause |-> "", res |-> NoResponse]

\* a response of verify-token: res.json({valid, error, user}), status 200
VerifyResponse(h, status, valid, error, user) ==
    [header |-> h, status |-> status, valid |-> valid, error |-> error,
     user |-> user, at |-> now]
NoVerify == [header |-> <<>>, status |-> 0, valid |-> FALSE, error |-> "",
             user |-> NoPayload, at |-> 0]

\* a response of check-username ({available} or {error}) or of users
\* ({users} or {error})
GetResponse(route, username, status, available, rows, error) ==
    [route |-> route, username |-> username, status |-> status,
     available |-> available, users |-> rows, error |-> error, seq |-> seq]
NoGet == [route |-> "", username |-> "", status |-> 0, available |-> FALSE,
          users |-> {}, error |-> "", seq |-> 0]

Init ==
    /\ env \in [JWT_SECRET : EnvSecrets, NODE_ENV : NodeEnvs]
    /\ db = "pending"
    /\ users = {}
    /\ seq = 1
    /\ now = 0
    /\ reg = [r \in RegIds |-> IdleRegister]
    /\ login = [l \in LoginIds |-> IdleLogin]
    /\ ver = NoVerify
    /\ lastReg = <<0, 0>>
    /\ get = NoGet

(***************************************************************************)
(* The store.  A query throws when the table was not created or when the   *)
(* connection fails; `up` tells whether the connection serves the query.   *)
(***************************************************************************)
QueryThrows(up) == db # "created" \/ ~up

\* SELECT id FROM users WHERE username = $1 OR email = $2
SelectByUsernameOrEmail_And(u, e) ==
    {row \in users : row.username = u /\ row.email = e}

SelectByUsernameOrEmail(u, e) ==
    {row \in users : row.username = u \/ row.email = e}

UniqueViolation_None(u, e) == FALSE

\* username ... UNIQUE, email ... UNIQUE
UniqueViolation(u, e) ==
    \E row \in users : row.username = u \/ row.email = e

\* INSERT INTO users (username, email, password_hash) ... RETURNING ...
InsertedRow(u, e, hash) ==
    [id |-> seq, username |-> u, email |-> e, password_hash |-> hash,
     created_at |-> now]

(***************************************************************************)
(* initDatabase(): CREATE TABLE IF NOT EXISTS users; an error is logged    *)
(* and swallowed.  It is started at load and not awaited, so requests may  *)
(* be served before it completes.                                          *)
(***************************************************************************)
InitDatabase ==
    /\ db = "pending"
    /\ db' \in {"created", "failed"}
    /\ lastReg' = <<0, 0>>
    /\ UNCHANGED <<env, users, seq, now, reg, login, ver, get>>

\* time passes, half an expiry window at a time: a token is seen before,
\* exactly at and after its expiry
ClockStep == ThirtyDays \div 2
Tick ==
    /\ now + ClockStep <= MaxNow
    /\ now' = now + ClockStep
    /\ lastReg' = <<0, 0>>
    /\ UNCHANGED <<env, db, users, seq, reg, login, ver, get>>

(***************************************************************************)
(* POST /api/register                                                      *)
(***************************************************************************)
\* the catch block, lines 142-148
RegisterFailure(message) ==
    Response(500, ErrRegister,
             IF env.NODE_ENV = "development" THEN message ELSE "",
             NoToken, NoUser)

RegisterEnd(r, cause, res) ==
    reg' = [reg EXCEPT ![r].pc = "done", ![r].cause = cause, ![r].res = res]

\* lines 86-95: destructure the body and validate; the SELECT is then sent
RegisterReceive(r, u, e, p) ==
    /\ reg[r].pc = "idle"
    /\ \A q \in RegIds : q < r => reg[q].pc # "idle"
    /\ LET rq == [reg[r] EXCEPT !.username = u, !.email = e, !.password = p]
       IN  \/ /\ FalsyString(u) \/ FalsyString(e) \/ FalsyPassword(p)
              /\ reg' = [reg EXCEPT ![r] = [rq EXCEPT !.pc = "done",
                             !.res = Response(400, ErrAllFields, "", NoToken, NoUser)]]
           \/ /\ ~(FalsyString(u) \/ FalsyString(e) \/ FalsyPassword(p))
              /\ PasswordTooShort(p)
              /\ reg' = [reg EXCEPT ![r] = [rq EXCEPT !.pc = "done",
                             !.res = Response(400, ErrShortPwd, "", NoToken, NoUser)]]
           \/ /\ ~(FalsyString(u) \/ FalsyString(e) \/ FalsyPassword(p))
              /\ ~PasswordTooShort(p)
              /\ reg' = [reg EXCEPT ![r] = [rq EXCEPT !.pc = "check"]]
    /\ lastReg' = <<0, 0>>
    /\ UNCHANGED <<env, db, users, seq, now, login, ver, get>>

\* the pre-check outside the try block: a rejected query leaves the request
\* without a response
RegisterCheck_NoCatch(r, up) ==
    /\ reg[r].pc = "check"
    /\ \/ /\ QueryThrows(up)
          /\ reg' = [reg EXCEPT ![r].pc = "hung"]
       \/ /\ ~QueryThrows(up)
          /\ SelectByUsernameOrEmail(reg[r].username, reg[r].email) # {}
          /\ RegisterEnd(r, "", Response(400, ErrUserExists, "", NoToken, NoUser))
       \/ /\ ~QueryThrows(up)
          /\ SelectByUsernameOrEmail(reg[r].username, reg[r].email) = {}
          /\ reg' = [reg EXCEPT ![r].pc = "hash"]
    /\ lastReg' = <<0, 0>>
    /\ UNCHANGED <<env, db, users, seq, now, login, ver, get>>

\* lines 98-107: the uniqueness pre-check
RegisterCheck(r, up) ==
    /\ reg[r].pc = "check"
    /\ \/ /\ QueryThrows(up)
          /\ RegisterEnd(r, "store", RegisterFailure(MsgStore))
       \/ /\ ~QueryThrows(up)
          /\ SelectByUsernameOrEmail(reg[r].username, reg[r].email) # {}
          /\ RegisterEnd(r, "", Response(400, ErrUserExists, "", NoToken, NoUser))
       \/ /\ ~QueryThrows(up)
          /\ SelectByUsernameOrEmail(reg[r].username, reg[r].email) = {}
          /\ reg' = [reg EXCEPT ![r].pc = "hash"]
    /\ lastReg' = <<0, 0>>
    /\ UNCHANGED <<env, db, users, seq, now, login, ver, get>>

\* a handler that answers 201 with a token once the password is hashed,
\* leaving the INSERT out
RegisterHash_SkipInsert(r, salt) ==
    /\ reg[r].pc = "hash"
    /\ \/ /\ BcryptThrows(reg[r].password)
          /\ RegisterEnd(r, "bcrypt", RegisterFailure(MsgBcrypt))
       \/ /\ ~BcryptThrows(reg[r].password)
          /\ RegisterEnd(r, "", Response(201, "", "",
                JwtSign(seq, reg[r].username, JwtSecretOf(env), now),
                [id |-> seq, username |-> reg[r].username,
                 email |-> reg[r].email]))
    /\ lastReg' = <<0, 0>>
    /\ UNCHANGED <<env, db, users, seq, now, login, ver, get>>

\* lines 110-111: bcrypt.genSalt(10), then bcrypt.hash(password, salt)
\* `salt` is the value genSalt draws
RegisterHash(r, salt) ==
    /\ reg[r].pc = "hash"
    /\ \/ /\ BcryptThrows(reg[r].password)
          /\ RegisterEnd(r, "bcrypt", RegisterFailure(MsgBcrypt))
       \/ /\ ~BcryptThrows(reg[r].password)
          /\ reg' = [reg EXCEPT ![r].pc = "insert",
                        ![r].passwordHash = BcryptHash(reg[r].password, salt)]
    /\ lastReg' = <<0, 0>>
    /\ UNCHANGED <<env, db, users, seq, now, login, ver, get>>

\* lines 114-140: the INSERT, then jwt.sign and the 201 response.  The
\* sequence value is drawn before the unique indexes are checked, so a
\* rejected INSERT still consumes an id.
RegisterInsert(r, up) ==
    /\ reg[r].pc = "insert"
    /\ \/ /\ QueryThrows(up)
          /\ RegisterEnd(r, "store", RegisterFailure(MsgStore))
          /\ lastReg' = <<0, 0>>
          /\ UNCHANGED <<users, seq>>
       \/ /\ ~QueryThrows(up)
          /\ UniqueViolation(reg[r].username, reg[r].email)
          /\ RegisterEnd(r, "unique", RegisterFailure(MsgDuplicate))
          /\ seq' = seq + 1
          /\ lastReg' = <<0, 0>>
          /\ UNCHANGED users
       \/ /\ ~QueryThrows(up)
          /\ ~UniqueViolation(reg[r].username, reg[r].email)
          /\ LET row == InsertedRow(reg[r].username, reg[r].email,
                                    reg[r].passwordHash)
                 token == JwtSign(row.id, row.username, JwtSecretOf(env), now)
             IN  /\ users' = users \cup {row}
                 /\ seq' = seq + 1
                 /\ RegisterEnd(r, "", Response(201, "", "", token,
                      [id |-> row.id, username |-> row.username,
                       email |-> row.email]))
          /\ lastReg' = <<r, 0>>
    /\ UNCHANGED <<env, db, now, login, ver, get>>

(***************************************************************************)
(* POST /api/login                                                         *)
(***************************************************************************)
\* SELECT * FROM users WHERE username = $1 OR email = $1
SelectByIdentifier(id) ==
    {row \in users : row.username = id \/ row.email = id}

\* the catch block, lines 189-192
LoginFailure == Response(500, ErrLogin, "", NoToken, NoUser)

\* lines 163 and 169
LoginRejected == Response(401, ErrBadLogin, "", NoToken, NoUser)

LoginEnd(l, cause, res) ==
    login' = [login EXCEPT ![l].pc = "done", ![l].cause = cause, ![l].res = res]

\* login l runs with nothing else running since the last registration
Undisturbed(l) ==
    IF lastReg[1] # 0 /\ lastReg[2] = l THEN lastReg ELSE <<0, 0>>

\* line 154: destructure the body; the SELECT is then sent
LoginReceive(l, id, p) ==
    /\ login[l].pc = "idle"
    /\ \A q \in LoginIds : q < l => login[q].pc # "idle"
    /\ login' = [login EXCEPT ![l].pc = "lookup", ![l].username = id,
                              ![l].password = p]
    /\ lastReg' = IF lastReg[1] # 0 /\ lastReg[2] = 0
                  THEN <<lastReg[1], l>> ELSE <<0, 0>>
    /\ UNCHANGED <<env, db, users, seq, now, reg, ver, get>>

\* lines 157-164: the lookup; user.rows[0] is whichever matching row the
\* store returns first (the query has no ORDER BY)
LoginLookup(l, up) ==
    /\ login[l].pc = "lookup"
    /\ \/ /\ QueryThrows(up)
          /\ LoginEnd(l, "store", LoginFailure)
       \/ /\ ~QueryThrows(up)
          /\ SelectByIdentifier(login[l].username) = {}
          /\ LoginEnd(l, "", LoginRejected)
       \/ /\ ~QueryThrows(up)
          /\ \E row \in SelectByIdentifier(login[l].username) :
               login' = [login EXCEPT ![l].pc = "compare", ![l].row = row]
    /\ lastReg' = Undisturbed(l)
    /\ UNCHANGED <<env, db, users, seq, now, reg, ver, get>>

\* a login that rehashes the stored password on success (UPDATE users SET
\* password_hash)
LoginCompare_Rehash(l) ==
    /\ login[l].pc = "compare"
    /\ LET row == login[l].row
       IN  \/ /\ BcryptThrows(login[l].password)
              /\ LoginEnd(l, "bcrypt", LoginFailure)
              /\ UNCHANGED users
           \/ /\ ~BcryptThrows(login[l].password)
              /\ ~BcryptCompare(login[l].password, row.password_hash)
              /\ LoginEnd(l, "", LoginRejected)
              /\ UNCHANGED users
           \/ /\ ~BcryptThrows(login[l].password)
              /\ BcryptCompare(login[l].password, row.password_hash)
              /\ users' = (users \ {row}) \cup
                     {[row EXCEPT !.password_hash =
                                    BcryptHash(login[l].password, "salt2")]}
              /\ LoginEnd(l, "", Response(200, "", "",
                    JwtSign(row.id, row.username, JwtSecretOf(env), now),
                    [id |-> row.id, username |-> row.username,
                     email |-> row.email]))
    /\ lastReg' = Undisturbed(l)
    /\ UNCHANGED <<env, db, seq, now, reg, ver, get>>

\* lines 167-187: bcrypt.compare, then jwt.sign and the 200 response
LoginCompare(l) ==
    /\ login[l].pc = "compare"
    /\ LET row == login[l].row
       IN  \/ /\ BcryptThrows(login[l].password)
              /\ LoginEnd(l, "bcrypt", LoginFailure)
           \/ /\ ~BcryptThrows(login[l].password)
              /\ ~BcryptCompare(login[l].password, row.password_hash)
              /\ LoginEnd(l, "", LoginRejected)
           \/ /\ ~BcryptThrows(login[l].password)
              /\ BcryptCompare(login[l].password, row.password_hash)
              /\ LoginEnd(l, "", Response(200, "", "",
                    JwtSign(row.id, row.username, JwtSecretOf(env), now),
                    [id |-> row.id, username |-> row.username,
                     email |-> row.email]))
    /\ lastReg' = Undisturbed(l)
    /\ UNCHANGED <<env, db, users, seq, now, reg, ver, get>>

(***************************************************************************)
(* GET /api/verify-token.  The handler has no await: one atomic step.      *)
(***************************************************************************)
\* the tokens the server has sent in a response
IssuedTokens ==
    ({reg[r].res.token : r \in RegIds} \cup {login[l].res.token : l \in LoginIds})
        \ {NoToken}

\* keys anyone can sign with: the constant in the published source, a guess
PublicKeys == {DefaultSecret, "guessed-key"}

\* what a client can build from an issued token without the secret
Tampered(t) ==
    {[t EXCEPT !.username = "admin"], [t EXCEPT !.exp = t.exp + ThirtyDays]}
Resigned(t) ==
    {LET f == [t EXCEPT !.username = "admin"]
     IN  [f EXCEPT !.sig = Hmac(k, f)] : k \in PublicKeys}

PresentableTokens ==
    IssuedTokens \cup {Garbage}
      \cup UNION {Tampered(t) \cup Resigned(t) : t \in IssuedTokens}

\* the Authorization header split on ' ': absent, "Bearer", "Bearer <token>"
Headers == {<<>>, <<"Bearer">>} \cup {<<"Bearer", t>> : t \in PresentableTokens}

\* authHeader && authHeader.split(' ')[1]
HeaderToken(h) == IF Len(h) >= 2 THEN h[2] ELSE NoToken

\* jwt.verify outside a try block: its exception reaches express's error
\* handler, which answers 500
VerifyToken_NoCatch(h) ==
    /\ LET token == HeaderToken(h)
       IN  \/ /\ token = NoToken
              /\ ver' = VerifyResponse(h, 200, FALSE, ErrNoToken, NoPayload)
           \/ /\ token # NoToken
              /\ JwtVerify(token, JwtSecretOf(env), now)
              /\ ver' = VerifyResponse(h, 200, TRUE, "", Decoded(token))
           \/ /\ token # NoToken
              /\ ~JwtVerify(token, JwtSecretOf(env), now)
              /\ ver' = VerifyResponse(h, 500, FALSE, ErrBadToken, NoPayload)
    /\ lastReg' = <<0, 0>>
    /\ UNCHANGED <<env, db, users, seq, now, reg, login, get>>

\* lines 196-210
VerifyToken(h) ==
    /\ LET token == HeaderToken(h)
       IN  \/ /\ token = NoToken
              /\ ver' = VerifyResponse(h, 200, FALSE, ErrNoToken, NoPayload)
           \/ /\ token # NoToken
              /\ JwtVerify(token, JwtSecretOf(env), now)
              /\ ver' = VerifyResponse(h, 200, TRUE, "", Decoded(token))
           \/ /\ token # NoToken
              /\ ~JwtVerify(token, JwtSecretOf(env), now)
              /\ ver' = VerifyResponse(h, 200, FALSE, ErrBadToken, NoPayload)
    /\ lastReg' = <<0, 0>>
    /\ UNCHANGED <<env, db, users, seq, now, reg, login, get>>

(***************************************************************************)
(* GET /api/check-username/:username and GET /api/users.  Each handler     *)
(* awaits one query and answers from its result: one step at the store.    *)
(***************************************************************************)
SelectByUsername_OrEmail(u) ==
    {row \in users : row.username = u \/ row.email = u}

\* SELECT id FROM users WHERE username = $1
SelectByUsername(u) == {row \in users : row.username = u}

PublicColumns_Star(row) == row

\* SELECT id, username, email, created_at FROM users
PublicColumns(row) ==
    [id |-> row.id, username |-> row.username, email |-> row.email,
     created_at |-> row.created_at]

\* lines 68-79; the catch block answers with error.message
CheckUsername(u, up) ==
    /\ \/ /\ QueryThrows(up)
          /\ get' = GetResponse("check-username", u, 500, FALSE, {}, MsgStore)
       \/ /\ ~QueryThrows(up)
          /\ get' = GetResponse("check-username", u, 200,
                                SelectByUsername(u) = {}, {}, "")
    /\ lastReg' = <<0, 0>>
    /\ UNCHANGED <<env, db, users, seq, now, reg, login, ver>>

\* lines 213-220; the catch block answers with error.message
GetUsers(up) ==
    /\ \/ /\ QueryThrows(up)
          /\ get' = GetResponse("users", "", 500, FALSE, {}, MsgStore)
       \/ /\ ~QueryThrows(up)
          /\ get' = GetResponse("users", "", 200, FALSE,
                                {PublicColumns(row) : row \in users}, "")
    /\ lastReg' = <<0, 0>>
    /\ UNCHANGED <<env, db, users, seq, now, reg, login, ver>>

(***************************************************************************)
(* Specifications.  The server is the same in all of them; they differ in  *)
(* what the clients send and in what the environment does.                 *)
(*   Spec       registrations only, any input, served concurrently, over   *)
(*              a connection that may fail.                                *)
(*   SpecLogin  well-formed registrations and logins, one request at a     *)
(*              time, in production.                                       *)
(*   SpecToken  as SpecLogin with two registrations and one login, a       *)
(*              reliable connection, plus token verification and the       *)
(*              passing of time.                                           *)
(*   SpecAll    every operation, in production, over a connection that     *)
(*              may fail: two registrations and one login, received one    *)
(*              at a time, with token verification, check-username and    *)
(*              users requests served at any moment, also between the      *)
(*              steps of a registration or login.                          *)
(*   SpecLive   every operation, with the requests' continuations          *)
(*              scheduled fairly: each awaited store or hash operation     *)
(*              eventually returns or throws.                              *)
(***************************************************************************)
\* no request is being served
Quiet ==
    /\ \A r \in RegIds : reg[r].pc \in {"idle", "done"}
    /\ \A l \in LoginIds : login[l].pc \in {"idle", "done"}

RegisterSteps(Up, SaltSet) ==
    \/ \E r \in RegIds, up \in Up : RegisterCheck(r, up)
    \/ \E r \in RegIds, salt \in SaltSet : RegisterHash(r, salt)
    \/ \E r \in RegIds, up \in Up : RegisterInsert(r, up)

LoginSteps(Up) ==
    \/ \E l \in LoginIds, up \in Up : LoginLookup(l, up)
    \/ \E l \in LoginIds : LoginCompare(l)

WellFormedUsernames == Usernames \ {""}
WellFormedEmails    == Emails \ {""}

Next ==
    \/ InitDatabase
    \/ \E r \in RegIds, u \in Usernames, e \in Emails, p \in RegPasswords :
         RegisterReceive(r, u, e, p)
    \/ RegisterSteps(BOOLEAN, Salts)

Spec == Init /\ [][Next]_vars

InitProduction == Init /\ env.NODE_ENV = "production"

NextLogin ==
    \/ InitDatabase
    \/ \E r \in RegIds, u \in WellFormedUsernames, e \in WellFormedEmails :
         Quiet /\ RegisterReceive(r, u, e, PwGood)
    \/ RegisterSteps(BOOLEAN, Salts)
    \/ \E l \in LoginIds, id \in Identifiers, p \in LoginPasswords :
         Quiet /\ LoginReceive(l, id, p)
    \/ LoginSteps(BOOLEAN)

SpecLogin == InitProduction /\ [][NextLogin]_vars

\* SpecToken registers at most two accounts
TokenRegIds == {r \in RegIds : r <= 2}

NextToken ==
    \/ InitDatabase
    \/ Tick
    \/ \E r \in TokenRegIds, u \in WellFormedUsernames, e \in WellFormedEmails :
         Quiet /\ RegisterReceive(r, u, e, PwGood)
    \/ RegisterSteps({TRUE}, {"salt1"})
    \/ \E id \in Identifiers : Quiet /\ LoginReceive(1, id, PwGood)
    \/ LoginSteps({TRUE})
    \/ \E h \in Headers : Quiet /\ VerifyToken(h)

SpecToken == InitProduction /\ [][NextToken]_vars

\* the headers SpecAll presents: none, a malformed token, an issued token
PlainHeaders ==
    {<<>>} \cup {<<"Bearer", t>> : t \in IssuedTokens \cup {Garbage}}

NextAll ==
    \/ InitDatabase
    \/ \E r \in TokenRegIds, u \in WellFormedUsernames, e \in WellFormedEmails,
          p \in {PwShort, PwGood} :
         Quiet /\ RegisterReceive(r, u, e, p)
    \/ RegisterSteps(BOOLEAN, {"salt1"})
    \/ \E id \in Identifiers, p \in LoginPasswords :
         Quiet /\ LoginReceive(1, id, p)
    \/ LoginSteps(BOOLEAN)
    \/ \E h \in PlainHeaders : VerifyToken(h)
    \/ \E u \in WellFormedUsernames, up \in BOOLEAN : CheckUsername(u, up)
    \/ \E up \in BOOLEAN : GetUsers(up)

SpecAll == InitProduction /\ [][NextAll]_vars

NextLive ==
    \/ InitDatabase
    \/ \E r \in TokenRegIds, e \in WellFormedEmails,
          p \in {PwShort, PwGood, PwNumber} :
         Quiet /\ RegisterReceive(r, "tony", e, p)
    \/ RegisterSteps(BOOLEAN, {"salt1"})
    \/ \E id \in Identifiers, p \in LoginPasswords :
         Quiet /\ LoginReceive(1, id, p)
    \/ LoginSteps(BOOLEAN)
    \/ VerifyToken(<<>>)
    \/ \E up \in BOOLEAN : CheckUsername("tony", up)
    \/ \E up \in BOOLEAN : GetUsers(up)

\* every await of a handler is resumed: the promise of pool.query and of
\* bcrypt settles, and the event loop runs the continuation
Fairness ==
    /\ \A r \in TokenRegIds :
          /\ WF_vars(\E up \in BOOLEAN : RegisterCheck(r, up))
          /\ WF_vars(RegisterHash(r, "salt1"))
          /\ WF_vars(\E up \in BOOLEAN : RegisterInsert(r, up))
    /\ WF_vars(\E up \in BOOLEAN : LoginLookup(1, up))
    /\ WF_vars(LoginCompare(1))

SpecLive == InitProduction /\ [][NextLive]_vars /\ Fairness

(***************************************************************************)
(* Vocabulary of the properties.                                           *)
(***************************************************************************)
\* the error kind (spec section 7) a response stands for
Kind(res) ==
    CASE res.status \in {200, 201} -> "Success"
      [] res.status = 400 /\ res.error \in {ErrAllFields, ErrShortPwd}
                                   -> "ValidationError"
      [] res.status = 400 /\ res.error = ErrUserExists -> "ConflictError"
      [] res.status = 401          -> "AuthenticationError"
      [] res.status = 500          -> "ServerFailure"
      [] OTHER                     -> "None"

\* a register request the spec calls valid
ValidRequest(q) ==
    /\ q.username # "" /\ q.email # ""
    /\ q.password.type = "string" /\ q.password.len >= MinPasswordLen

\* the responses sent to register and login requests
Responses ==
    {reg[r].res : r \in RegIds} \cup {login[l].res : l \in LoginIds}

(***************************************************************************)
(* C1.  In every reachable state no two distinct stored accounts share a   *)
(* username and no two share an email, whatever the interleaving of the    *)
(* register requests.                                                      *)
(***************************************************************************)
C1_UniqueUsernameAndEmail ==
    \A a, b \in users :
        a # b => a.username # b.username /\ a.email # b.email

\* a registration passed the pre-check and then lost the race at the INSERT
C1_Witness ==
    /\ users # {}
    /\ \E r \in RegIds : reg[r].cause = "unique"

(***************************************************************************)
(* C2.  When two or more valid register requests with the same username    *)
(* are the only requests made and all have been answered (the store        *)
(* serving every query), exactly one ended in success and every other one  *)
(* in a ConflictError.                                                     *)
(***************************************************************************)
C2_OneSuccessOthersConflict ==
    \A u \in WellFormedUsernames :
        LET G == {r \in RegIds : /\ reg[r].pc = "done"
                                 /\ reg[r].username = u
                                 /\ ValidRequest(reg[r])
                                 /\ reg[r].cause # "store"}
            Won == {r \in G : Kind(reg[r].res) = "Success"}
        IN  (/\ Cardinality(G) >= 2
             /\ \A r \in RegIds : reg[r].pc # "idle" => r \in G)
            => /\ Cardinality(Won) = 1
               /\ \A r \in G \ Won : Kind(reg[r].res) = "ConflictError"

(***************************************************************************)
(* C3.  A register request whose INSERT is rejected by the unique          *)
(* constraint on username or email is answered with a ConflictError, not   *)
(* with the generic server failure.                                        *)
(***************************************************************************)
C3_InsertConflictIsConflictError ==
    \A r \in RegIds :
        reg[r].cause = "unique" => Kind(reg[r].res) = "ConflictError"

(***************************************************************************)
(* C4.  A login with the username and password of a registration that     *)
(* has just succeeded, with no other operation in between and the store    *)
(* serving the lookup, succeeds and returns the id the registration        *)
(* returned.                                                               *)
(***************************************************************************)
C4_RegisterThenLogin ==
    \A l \in LoginIds :
        (/\ login[l].pc = "done"
         /\ lastReg[1] # 0 /\ lastReg[2] = l
         /\ login[l].username = reg[lastReg[1]].username
         /\ login[l].password = reg[lastReg[1]].password
         /\ login[l].cause # "store")
        => /\ Kind(login[l].res) = "Success"
           /\ login[l].res.user.id = reg[lastReg[1]].res.user.id

(***************************************************************************)
(* C5.  A login whose identifier matched an account but which did not      *)
(* authenticate and a login whose identifier matched no account get the    *)
(* same response, whatever password value was supplied.                    *)
(***************************************************************************)
C5_EnumerationResistance ==
    \A k, l \in LoginIds :
        (/\ login[k].pc = "done" /\ login[l].pc = "done"
         /\ login[k].row # NoRow /\ Kind(login[k].res) # "Success"
         /\ login[l].row = NoRow /\ login[l].cause # "store")
        => login[k].res = login[l].res

(***************************************************************************)
(* C6.  A register request with a missing or empty username, email or      *)
(* password, or with a password shorter than 6 characters, is answered on  *)
(* receipt with a ValidationError and no token, leaves the store as it     *)
(* was, and being answered takes no further step (so it never reaches the  *)
(* uniqueness lookup or the insert).                                       *)
(***************************************************************************)
C6_InvalidInputRejected ==
    [][\A r \in RegIds :
         /\ (/\ reg[r].pc = "idle" /\ reg'[r].pc # "idle"
             /\ \/ reg'[r].username = "" \/ reg'[r].email = ""
                \/ reg'[r].password.type = "undefined"
                \/ /\ reg'[r].password.type = "string"
                   /\ reg'[r].password.len < MinPasswordLen)
            => /\ reg'[r].pc = "done"
               /\ Kind(reg'[r].res) = "ValidationError"
               /\ reg'[r].res.token = NoToken
               /\ users' = users /\ seq' = seq
         /\ reg[r].pc = "done" => reg'[r] = reg[r]]_vars

\* a request with a 5-character password was rejected
C6_Witness ==
    \E r \in RegIds :
        /\ reg[r].pc = "done" /\ reg[r].password = PwShort
        /\ reg[r].username # "" /\ reg[r].email # ""
        /\ Kind(reg[r].res) = "ValidationError"

(***************************************************************************)
(* C7.  A valid register request whose pre-check is served while an        *)
(* account with its username, or an account with its email, is stored is   *)
(* answered with a ConflictError and no token, and that step leaves the    *)
(* store as it was and ends the request (no hashing, no insert).           *)
(***************************************************************************)
C7_DuplicateRejected ==
    [][\A r \in RegIds :
         (/\ reg[r].pc = "check" /\ reg'[r].pc # "check"
          /\ \E a \in users : \/ a.username = reg[r].username
                              \/ a.email = reg[r].email
          /\ reg'[r].cause # "store")
         => /\ reg'[r].pc = "done"
            /\ Kind(reg'[r].res) = "ConflictError"
            /\ reg'[r].res.token = NoToken
            /\ reg'[r].passwordHash = NoHash
            /\ users' = users /\ seq' = seq]_vars

\* a second registration of a stored username, under another email, was
\* rejected
C7_Witness ==
    \E r \in RegIds :
        /\ reg[r].pc = "done" /\ Kind(reg[r].res) = "ConflictError"
        /\ \E a \in users : /\ a.username = reg[r].username
                            /\ a.email # reg[r].email

(***************************************************************************)
(* C8.  When JWT_SECRET is not configured the process never issues and     *)
(* never accepts a token signed with the built-in default secret.          *)
(***************************************************************************)
C8_NoDefaultSecret ==
    env.JWT_SECRET = ""
    => /\ \A t \in IssuedTokens : t.sig.key # DefaultSecret
       /\ ver.valid => HeaderToken(ver.header).sig.key # DefaultSecret

(***************************************************************************)
(* C9.  A token issued by register or login and verified before its        *)
(* 30-day expiry verifies as valid, and the decoded payload carries the    *)
(* id and the username of the account it was issued for.                   *)
(***************************************************************************)
C9_IssuedTokenVerifies ==
    \A t \in IssuedTokens :
        (ver.header = <<"Bearer", t>> /\ ver.at < t.iat + ThirtyDays)
        => /\ ver.valid
           /\ \A res \in Responses :
                res.token = t => /\ ver.user.userId = res.user.id
                                 /\ ver.user.username = res.user.username

\* a token was verified at the time it was issued
C9_Witness ==
    /\ ver.valid
    /\ HeaderToken(ver.header) \in IssuedTokens
    /\ ver.at = HeaderToken(ver.header).iat

(***************************************************************************)
(* C10.  verify-token answers valid:true only for a token signed with the  *)
(* process signing secret over the very claims it carries and presented    *)
(* less than 30 days after its issuance; a token with an altered payload   *)
(* or signature, and an issued token presented at or after its expiry,     *)
(* get valid:false.                                                        *)
(***************************************************************************)
C10_OnlySignedUnexpired ==
    LET t == HeaderToken(ver.header)
    IN  /\ ver.valid => /\ t.sig.key = JwtSecretOf(env)
                        /\ t.sig = Hmac(t.sig.key, t)
                        /\ ver.at < t.iat + ThirtyDays
        /\ (\E i \in IssuedTokens : t \in Tampered(i)) => ~ver.valid
        /\ (t \in IssuedTokens /\ ver.at >= t.iat + ThirtyDays) => ~ver.valid

\* an issued token was presented at its expiry time and refused
C10_Witness ==
    /\ ~ver.valid
    /\ HeaderToken(ver.header) \in IssuedTokens
    /\ ver.at = HeaderToken(ver.header).iat + ThirtyDays

(***************************************************************************)
(* C11.  Every verify-token request is answered with a plain (status 200)  *)
(* result and never with an error response: valid:false without a payload  *)
(* when the Authorization header is absent or has no second part, when     *)
(* the token is malformed, wrongly signed or expired; valid:true with the  *)
(* decoded payload of the token in every other case.                       *)
(***************************************************************************)
C11_VerifyNeverRaises ==
    LET h == ver.header
        t == HeaderToken(h)
        bad == \/ Len(h) < 2
               \/ t.form # "jwt"
               \/ t.sig.key # JwtSecretOf(env)
               \/ t.sig # Hmac(t.sig.key, t)
               \/ ver.at >= t.exp
    IN  ver # NoVerify
        => /\ ver.status = 200
           /\ ver.valid = ~bad
           /\ ver.user = IF bad THEN NoPayload ELSE Decoded(t)

\* a token signed with a guessed key was answered valid:false
C11_Witness ==
    /\ ver.status = 200 /\ ~ver.valid
    /\ HeaderToken(ver.header).sig.key = "guessed-key"

(***************************************************************************)
(* C12.  No response of any operation carries an account's password hash:  *)
(* the user of a register or login response has only id, username and      *)
(* email, every record of a users listing has only id, username, email     *)
(* and created_at, and no response, token or decoded payload has a field   *)
(* holding a hash.                                                         *)
(***************************************************************************)
C12_NoPasswordHashReturned ==
    LET HashFree(rec) ==
            DOMAIN rec \cap {"password_hash", "passwordHash", "salt", "digest"} = {}
    IN  /\ \A res \in Responses :
              /\ HashFree(res) /\ HashFree(res.token) /\ HashFree(res.token.sig)
              /\ DOMAIN res.user = {"id", "username", "email"}
        /\ \A rec \in get.users :
              DOMAIN rec = {"id", "username", "email", "created_at"}
        /\ HashFree(get)
        /\ HashFree(ver) /\ HashFree(ver.user)

\* a users listing with a record in it, and a successful login, were
\* answered
C12_Witness ==
    /\ get.route = "users" /\ get.users # {}
    /\ Kind(login[1].res) = "Success"

(***************************************************************************)
(* C13.  When the store fails, every operation answers a generic server    *)
(* failure whose body carries the store's message only in development:     *)
(* in production no response to register, login, check-username or users   *)
(* holds the message of the store's error.                                 *)
(***************************************************************************)
C13_StoreFailureIsGeneric ==
    /\ \A r \in RegIds : reg[r].cause = "store" =>
          /\ Kind(reg[r].res) = "ServerFailure"
          /\ reg[r].res.error = ErrRegister
          /\ reg[r].res.details =
                IF env.NODE_ENV = "development" THEN MsgStore ELSE ""
    /\ \A l \in LoginIds : login[l].cause = "store" =>
          /\ Kind(login[l].res) = "ServerFailure"
          /\ login[l].res.error = ErrLogin
          /\ (env.NODE_ENV = "production" => login[l].res.details = "")
    /\ (get.status = 500 /\ env.NODE_ENV = "production") => get.error # MsgStore

(***************************************************************************)
(* C14.  The store only grows, and only through register: no step removes  *)
(* or alters a stored account; a step that changes the store is the last   *)
(* step of a registration that ends in success, and adds exactly the one   *)
(* account of that request; a registration that ends otherwise, and every  *)
(* step of login, verify-token, check-username and users, leaves the       *)
(* store as it was.                                                        *)
(***************************************************************************)
C14_StoreOnlyGrows ==
    [][/\ users \subseteq users'
       /\ users' # users =>
            \E r \in RegIds :
               /\ reg[r].pc = "insert" /\ reg'[r].pc = "done"
               /\ Kind(reg'[r].res) = "Success"
               /\ \E row \in users' :
                     /\ users' \ users = {row}
                     /\ row.username = reg[r].username
                     /\ row.email = reg[r].email
                     /\ row.id = reg'[r].res.user.id
       /\ \A r \in RegIds :
            (reg[r].pc # "done" /\ reg'[r].pc = "done"
                /\ Kind(reg'[r].res) # "Success") => users' = users
       /\ (login' # login \/ ver' # ver \/ get' # get) => users' = users
      ]_vars

\* an account is stored, another registration failed, a login succeeded
\* and a users listing was served
C14_Witness ==
    /\ users # {}
    /\ \E r \in RegIds : Kind(reg[r].res) \in {"ConflictError", "ServerFailure"}
    /\ Kind(login[1].res) = "Success"
    /\ get.route = "users" /\ get.status = 200

(***************************************************************************)
(* C15.  A registration goes through validation, the uniqueness check,     *)
(* hashing, the insert, and then token and response, in that order, and    *)
(* any step may end it with a failure.  A token is issued only by the      *)
(* step in which the insert succeeded; the account a success response      *)
(* names is in the store when the response is sent; a failed request       *)
(* carries no token.                                                       *)
(***************************************************************************)
C15_RegisterStepOrder ==
    [][\A r \in RegIds :
         /\ reg'[r].pc # reg[r].pc =>
               <<reg[r].pc, reg'[r].pc>> \in
                  {<<"idle", "check">>, <<"idle", "done">>,
                   <<"check", "hash">>, <<"check", "done">>,
                   <<"hash", "insert">>, <<"hash", "done">>,
                   <<"insert", "done">>}
         /\ reg'[r].pc # "done" => reg'[r].res = NoResponse
         /\ (reg[r].pc # "done" /\ reg'[r].pc = "done") =>
               IF Kind(reg'[r].res) = "Success"
               THEN /\ reg[r].pc = "insert"
                    /\ reg'[r].res.token.form = "jwt"
                    /\ \E row \in users' \ users :
                          /\ reg'[r].res.user =
                                [id |-> row.id, username |-> row.username,
                                 email |-> row.email]
                          /\ reg'[r].res.token.userId = row.id
                          /\ row.password_hash.digest = reg[r].password.text
               ELSE reg'[r].res.token = NoToken
      ]_vars

\* one registration ended in success while another, stopped by the insert,
\* ended in failure
C15_Witness ==
    \E r, q \in RegIds :
       /\ Kind(reg[r].res) = "Success"
       /\ reg[q].cause = "unique" /\ reg[q].res.token = NoToken

(***************************************************************************)
(* C16.  A check-username request that the store serves answers            *)
(* available: true exactly when no stored account has that username at     *)
(* the moment of the lookup, whatever the stored emails are.  While an     *)
(* answer available: false for a username stands, a valid registration     *)
(* of that username whose pre-check the store serves ends there with a     *)
(* ConflictError.                                                          *)
(***************************************************************************)
C16_CheckUsernameExact ==
    [][/\ (get' # get /\ get'.route = "check-username" /\ get'.status = 200)
            => get'.available =
                  ~ \E row \in users : row.username = get'.username
       /\ \A r \in RegIds :
            (/\ get.route = "check-username" /\ get.status = 200
             /\ ~get.available /\ get.username = reg[r].username
             /\ ValidRequest(reg[r])
             /\ reg[r].pc = "check" /\ reg'[r].pc # "check"
             /\ reg'[r].cause # "store")
            => /\ reg'[r].pc = "done"
               /\ Kind(reg'[r].res) = "ConflictError"
      ]_vars

\* a username was answered as taken, and a valid registration of it, under
\* an email no account has, is waiting for its pre-check
C16_Witness ==
    /\ get.route = "check-username" /\ get.status = 200 /\ ~get.available
    /\ \E r \in RegIds :
          /\ reg[r].pc = "check" /\ reg[r].username = get.username
          /\ ValidRequest(reg[r])
          /\ \A row \in users : row.email # reg[r].email

(***************************************************************************)
(* C17.  In every reachable store, an identifier matches at most one       *)
(* account when compared with both fields: no account's username is        *)
(* another account's email, so the login lookup by username or email       *)
(* returns at most one row.                                                *)
(***************************************************************************)
C17_IdentifierMatchesOneAccount ==
    /\ \A a, b \in users : a # b => a.username # b.email
    /\ \A id \in Identifiers : Cardinality(SelectByIdentifier(id)) <= 1

(***************************************************************************)
(* C18.  Login is sound: a login answered with success names, in its       *)
(* response and in its token, one stored account that matches the          *)
(* identifier by username or by email and whose stored hash is the hash    *)
(* of the supplied password; a login answered with a failure carries no    *)
(* token.                                                                  *)
(***************************************************************************)
C18_LoginSound ==
    \A l \in LoginIds :
       login[l].pc = "done" =>
          IF Kind(login[l].res) = "Success"
          THEN \E row \in users :
                  /\ login[l].res.user = [id |-> row.id,
                                          username |-> row.username,
                                          email |-> row.email]
                  /\ login[l].res.token.form = "jwt"
                  /\ login[l].res.token.userId = row.id
                  /\ login[l].res.token.username = row.username
                  /\ \/ row.username = login[l].username
                     \/ row.email = login[l].username
                  /\ login[l].password.type = "string"
                  /\ row.password_hash.digest = login[l].password.text
          ELSE login[l].res.token = NoToken

\* a login by email succeeded while another account has that identifier as
\* its username
C18_Witness ==
    /\ Kind(login[1].res) = "Success"
    /\ login[1].res.user.email = login[1].username
    /\ \E row \in users : row.username = login[1].username

(***************************************************************************)
(* C19.  When every awaited store and hash operation returns or throws,    *)
(* every register and login request received is eventually answered, a     *)
(* request is answered when and only when it is done, and an answer, once  *)
(* sent, is never replaced by a second one; every verify-token,            *)
(* check-username and users request is answered in the step that serves    *)
(* it.                                                                     *)
(***************************************************************************)
C19_ExactlyOneResponse ==
    /\ \A r \in RegIds : (reg[r].pc # "idle") ~> (reg[r].pc = "done")
    /\ \A l \in LoginIds : (login[l].pc # "idle") ~> (login[l].pc = "done")
    /\ [](/\ \A r \in RegIds : reg[r].pc = "done" <=> reg[r].res # NoResponse
          /\ \A l \in LoginIds :
                login[l].pc = "done" <=> login[l].res # NoResponse
          /\ \A res \in Responses : res # NoResponse => Kind(res) # "None")
    /\ [][/\ \A r \in RegIds : reg[r].pc = "done" => reg'[r] = reg[r]
          /\ \A l \in LoginIds : login[l].pc = "done" => login'[l] = login[l]
          /\ ver' # ver => ver'.status = 200
          /\ get' # get => get'.status \in {200, 500}
         ]_vars

\* a registration ended in a conflict, a login in a thrown hash error, and
\* a users request in a thrown store error
C19_Witness ==
    /\ \E r \in RegIds : Kind(reg[r].res) = "ConflictError"
    /\ login[1].cause = "bcrypt"
    /\ get.route = "users" /\ get.status = 500

=============================================================================
